---- MODULE Spec2Model ----
(***************************************************************************)
(* Model of wzmach's configuration layer (src/config/mod.rs):              *)
(* Config::load, serde defaulting, ConfigAction::make and                  *)
(* Config::make_triggers.                                                  *)
(*                                                                         *)
(* Conventions:                                                            *)
(*   - Option<T> is a sequence: <<>> is None, <<v>> is Some(v).            *)
(*   - f64 values are written in tenths (1.4 is 14, 60.0 is 600).          *)
(*   - key::ConfigKey is a one-field tuple struct, written <<k>>; its      *)
(*     field .0 is x[1].                                                   *)
(***************************************************************************)
EXTENDS Integers, Sequences, FiniteSets, TLC

VARIABLES file, pc, s, loadResult, config, docState, invocations,
          is_wayland, input_device, devicesCreated, chain, idx,
          triggers, actions, callLog, readAttempts, decodeAttempts

vars == <<file, pc, s, loadResult, config, docState, invocations,
          is_wayland, input_device, devicesCreated, chain, idx,
          triggers, actions, callLog, readAttempts, decodeAttempts>>

(* ---------------------------- bounds ----------------------------------- *)

\* Largest total number of entries over the three trigger lists of a file.
MaxEntries == 3

(* ------------------------ serde defaults ------------------------------- *)

default_distance == 100

default_pinch_copied == default_distance

default_pinch == 14

default_rotation == 600

default_triggers == <<>>

(* ------------------------- input domains ------------------------------- *)

\* Action descriptors as they can be written in a file.  The last one has a
\* tag that is not a variant of ConfigAction.
KeyboardDesc ==
    [kind |-> "KeyboardInput",
     modifiers |-> << <<1>>, <<2>> >>,
     sequence |-> << <<3>>, <<1>> >>]

CommandDesc ==
    [kind |-> "ExecuteCommand", path |-> "/bin/echo", args |-> <<"hi", "there">>]

ScriptDesc == [kind |-> "InlineScript", code |-> "x"]

UnknownDesc == [kind |-> "Reboot"]

ActionTags == {"KeyboardInput", "ExecuteCommand", "InlineScript"}

EntryPool ==
    { [trigger |-> "Swipe", action |-> KeyboardDesc],
      [trigger |-> "Shear", action |-> CommandDesc],
      [trigger |-> "Pinch", action |-> ScriptDesc],
      [trigger |-> "Rotate", action |-> UnknownDesc] }

EntryLists(n) == UNION { [1..k -> EntryPool] : k \in 0..n }

\* An optional trigger list of at most n entries: absent, or present.
OptEntryLists(n) == {<<>>} \cup { <<l>> : l \in EntryLists(n) }

OptLen(o) == IF o = <<>> THEN 0 ELSE Len(o[1])

\* Error kinds std::fs::read_to_string reports (never ErrorKind::Other).
ReadErrorKinds == {"NotFound", "PermissionDenied", "InvalidData"}

NoText ==
    [swipe_distance |-> <<>>, shear_distance |-> <<>>,
     pinch_distance |-> <<>>, rotation_distance |-> <<>>,
     global_triggers |-> <<>>, x11_triggers |-> <<>>,
     wayland_triggers |-> <<>>]

\* Trigger-list triples <<global, x11, wayland>> of at most n entries in all.
TriggerListTriples(n) ==
    UNION { UNION { { <<g, x, w>> :
                        w \in OptEntryLists(n - OptLen(g) - OptLen(x)) } :
                    x \in OptEntryLists(n - OptLen(g)) } :
            g \in OptEntryLists(n) }

Texts ==
    { [swipe_distance |-> sw, shear_distance |-> sh,
       pinch_distance |-> pi, rotation_distance |-> ro,
       global_triggers |-> l[1], x11_triggers |-> l[2],
       wayland_triggers |-> l[3]] :
        sw \in {<<>>, <<30>>}, sh \in {<<>>, <<70>>},
        pi \in {<<>>, <<20>>}, ro \in {<<>>, <<900>>},
        l \in TriggerListTriples(MaxEntries) }

Files ==
    { [readable |-> FALSE, err |-> k, text |-> NoText] : k \in ReadErrorKinds }
    \cup
    { [readable |-> TRUE, err |-> "", text |-> t] : t \in Texts }

(* --------------------------- decoding ---------------------------------- *)

OrDefault(opt, d) == IF opt = <<>> THEN d ELSE opt[1]

WellFormedList(opt) ==
    \A i \in 1..OptLen(opt) : opt[1][i].action.kind \in ActionTags

\* Does the text conform to the schema of Config?
Conforms(t) ==
    /\ WellFormedList(t.global_triggers)
    /\ WellFormedList(t.x11_triggers)
    /\ WellFormedList(t.wayland_triggers)

\* ron::from_str into Config, on a conforming text.
Decode(t) ==
    [swipe_distance |-> OrDefault(t.swipe_distance, default_distance),
     shear_distance |-> OrDefault(t.shear_distance, default_distance),
     pinch_distance |-> OrDefault(t.pinch_distance, default_pinch),
     rotation_distance |-> OrDefault(t.rotation_distance, default_rotation),
     global_triggers |-> OrDefault(t.global_triggers, default_triggers),
     x11_triggers |-> OrDefault(t.x11_triggers, default_triggers),
     wayland_triggers |-> OrDefault(t.wayland_triggers, default_triggers)]

NoResult == [tag |-> "none", kind |-> ""]

Ok == [tag |-> "Ok", kind |-> ""]

Err(k) == [tag |-> "Err", kind |-> k]

(* ----------------------- ConfigAction::make ---------------------------- *)

Unwrap(keys) == [i \in 1..Len(keys) |-> keys[i][1]]

Reverse(q) == [i \in 1..Len(q) |-> q[Len(q) + 1 - i]]

make_reversed(self, dev) ==
    CASE self.kind = "KeyboardInput" ->
           [kind |-> "KeyboardInputAction", device |-> dev,
            modifiers |-> Unwrap(self.modifiers),
            sequence |-> Reverse(Unwrap(self.sequence))]
      [] self.kind = "ExecuteCommand" ->
           [kind |-> "ExecuteCommandAction",
            path |-> self.path, args |-> Reverse(self.args)]
      [] self.kind = "InlineScript" ->
           [kind |-> "InlineScriptAction", command |-> self.code]

make(self, dev) ==
    CASE self.kind = "KeyboardInput" ->
           [kind |-> "KeyboardInputAction", device |-> dev,
            modifiers |-> Unwrap(self.modifiers),
            sequence |-> Unwrap(self.sequence)]
      [] self.kind = "ExecuteCommand" ->
           [kind |-> "ExecuteCommandAction",
            path |-> self.path, args |-> self.args]
      [] self.kind = "InlineScript" ->
           [kind |-> "InlineScriptAction", command |-> self.code]

(* ------------------------- Trigger::make ------------------------------- *)

\* The recognizer is opaque; it is recorded with what it was built from.
TriggerMake(desc, swipe, shear, pinch, rotation) ==
    [desc |-> desc, swipe |-> swipe, shear |-> shear,
     pinch |-> pinch, rotation |-> rotation]

ThresholdArgsSwapped(c) ==
    <<c.shear_distance, c.swipe_distance,
      c.rotation_distance, c.pinch_distance>>

\* The four arguments of x.trigger.make(..), in order.
ThresholdArgs(c) ==
    <<c.swipe_distance, c.shear_distance,
      c.pinch_distance, c.rotation_distance>>

EntryCallsActionFirst(i) == << <<"action.make", i>>, <<"trigger.make", i>> >>

\* The calls the closure makes for element i: a tuple expression evaluates
\* its fields left to right.
EntryCalls(i) == << <<"trigger.make", i>>, <<"action.make", i>> >>

SelectedBoth(c, w) == c.global_triggers \o c.wayland_triggers \o c.x11_triggers

\* global_triggers chained with the list the platform flag selects.
Selected(c, w) ==
    c.global_triggers \o (IF w THEN c.wayland_triggers ELSE c.x11_triggers)

PushFront(vec, item) == <<item>> \o vec

\* unzip extends each of the two vectors with one half of the pair.
Push(vec, item) == Append(vec, item)

ConsumeBorrowed(st) == st

\* make_triggers takes self by value: the Config is moved into the call.
Consume(st) == "Realized"

(* ----------------------------- state ----------------------------------- *)

Init ==
    /\ file \in Files
    /\ pc = "start"
    /\ s = NoText
    /\ loadResult = NoResult
    /\ config = <<>>
    /\ docState = "Unloaded"
    /\ invocations = 0
    /\ is_wayland = FALSE
    /\ input_device = 0
    /\ devicesCreated = 0
    /\ chain = <<>>
    /\ idx = 1
    /\ triggers = <<>>
    /\ actions = <<>>
    /\ callLog = <<>>
    /\ readAttempts = 0
    /\ decodeAttempts = 0

realizeVars == <<invocations, is_wayland, input_device, devicesCreated, chain,
                 idx, triggers, actions, callLog>>

(* --------------------------- Config::load ------------------------------ *)

\* read_to_string(path).map_err(..)? ; onError is where an Err goes.
LoadReadTo(onError) ==
    /\ pc = "start"
    /\ readAttempts' = readAttempts + 1
    /\ IF file.readable
         THEN /\ s' = file.text
              /\ pc' = "decoding"
              /\ loadResult' = loadResult
         ELSE /\ s' = s
              /\ pc' = onError
              /\ loadResult' = Err(file.err)
    /\ UNCHANGED <<file, config, docState, decodeAttempts>>
    /\ UNCHANGED realizeVars

LoadReadNoReturn == LoadReadTo("decoding")

LoadRead == LoadReadTo("failed")

\* ron::from_str(&s).map_err(..)
LoadDecode ==
    /\ pc = "decoding"
    /\ decodeAttempts' = decodeAttempts + 1
    /\ IF Conforms(s)
         THEN /\ config' = <<Decode(s)>>
              /\ loadResult' = Ok
              /\ docState' = "Loaded"
              /\ pc' = "idle"
         ELSE /\ config' = config
              /\ loadResult' = Err("Other")
              /\ docState' = docState
              /\ pc' = "failed"
    /\ UNCHANGED <<file, s, readAttempts>>
    /\ UNCHANGED realizeVars

(* ----------------------- Config::make_triggers ------------------------- *)

loadVars == <<file, s, loadResult, readAttempts, decodeAttempts>>

\* KeyboardInputAction::default_device(): builds a new device; n devices
\* exist already, the result is the number of the new one.
default_device(n) == n + 1

\* Entry of make_triggers: default_device(), then the chained iterator.
\* eager says whether default_device() is called here.
MakeTriggersWith(w, eager) ==
    /\ pc = "idle"
    /\ docState = "Loaded"
    /\ docState' = Consume(docState)
    /\ invocations' = invocations + 1
    /\ is_wayland' = w
    /\ devicesCreated' = IF eager THEN default_device(devicesCreated)
                                   ELSE devicesCreated
    /\ input_device' = devicesCreated'
    /\ chain' = Selected(config[1], w)
    /\ idx' = 1
    /\ triggers' = <<>>
    /\ actions' = <<>>
    /\ callLog' = << <<"default_device", 0>> >>
    /\ pc' = "iter"
    /\ UNCHANGED config
    /\ UNCHANGED loadVars

MakeTriggersNoDevice(w) == MakeTriggersWith(w, FALSE)

MakeTriggers(w) == MakeTriggersWith(w, TRUE)

\* The closure of .map(..) applied to the next element, and unzip's push of
\* the pair.  own says whether the element gets a device of its own.
MapEntryWith(own) ==
    /\ pc = "iter"
    /\ idx <= Len(chain)
    /\ LET x == chain[idx]
           a == ThresholdArgs(config[1])
           dev == IF own THEN default_device(devicesCreated) ELSE input_device
       IN /\ triggers' = Push(triggers,
                              TriggerMake(x.trigger, a[1], a[2], a[3], a[4]))
          /\ actions' = Push(actions, make(x.action, dev))
          /\ devicesCreated' = IF own THEN dev ELSE devicesCreated
    /\ callLog' = callLog \o EntryCalls(idx)
    /\ idx' = idx + 1
    /\ UNCHANGED <<pc, config, docState, invocations, is_wayland,
                   input_device, chain>>
    /\ UNCHANGED loadVars

MapEntryOwnDevice == MapEntryWith(TRUE)

MapEntry == MapEntryWith(FALSE)

\* The iterator is exhausted: unzip returns the two vectors.
Unzip ==
    /\ pc = "iter"
    /\ idx > Len(chain)
    /\ pc' = "idle"
    /\ UNCHANGED <<config, docState>>
    /\ UNCHANGED realizeVars
    /\ UNCHANGED loadVars

Next ==
    \/ LoadRead
    \/ LoadDecode
    \/ \E w \in BOOLEAN : MakeTriggers(w)
    \/ MapEntry
    \/ Unzip

Spec == Init /\ [][Next]_vars

(* ======================= properties of the code ======================== *)

\* make_triggers has been called.
Invoked == invocations >= 1

\* make_triggers has returned.
Returned == Invoked /\ pc = "idle"

TheConfig == config[1]

PlatformList == IF is_wayland THEN TheConfig.wayland_triggers
                              ELSE TheConfig.x11_triggers

UnselectedList == IF is_wayland THEN TheConfig.x11_triggers
                                ELSE TheConfig.wayland_triggers

Range(q) == { q[i] : i \in 1..Len(q) }

\* The realized action act carries the literal fields of descriptor d.
ActionKeeps(d, act) ==
    CASE d.kind = "KeyboardInput" ->
           /\ act.kind = "KeyboardInputAction"
           /\ { k[1] : k \in Range(d.modifiers) } = Range(act.modifiers)
           /\ Len(act.modifiers) = Len(d.modifiers)
           /\ Len(act.sequence) = Len(d.sequence)
           /\ \A i \in 1..Len(d.sequence) : act.sequence[i] = d.sequence[i][1]
      [] d.kind = "ExecuteCommand" ->
           /\ act.kind = "ExecuteCommandAction"
           /\ act.path = d.path
           /\ act.args = d.args
           /\ "device" \notin DOMAIN act
      [] d.kind = "InlineScript" ->
           /\ act.kind = "InlineScriptAction"
           /\ act.command = d.code
           /\ "device" \notin DOMAIN act
      [] OTHER -> FALSE

\* Output pair i was realized from entry e.
RealizedFrom(e, i) ==
    /\ triggers[i].desc = e.trigger
    /\ ActionKeeps(e.action, actions[i])

KeyboardIndices ==
    { i \in 1..Len(actions) : actions[i].kind = "KeyboardInputAction" }

NoKeyboardSelected ==
    \A i \in 1..Len(chain) : chain[i].action.kind # "KeyboardInput"

Positions(call) == { p \in 1..Len(callLog) : callLog[p] = call }

\* C1: make_triggers(d, true) returns Len(global) + Len(wayland) pairs and
\* make_triggers(d, false) returns Len(global) + Len(x11) pairs: the global
\* entries first, then the entries of the selected platform list, each list
\* in its own order; nothing is realized for the unselected list.
C1_GlobalThenPlatform ==
    Returned =>
      LET g == TheConfig.global_triggers
          q == PlatformList
      IN /\ Len(triggers) = Len(g) + Len(q)
         /\ Len(actions) = Len(g) + Len(q)
         /\ \A i \in 1..Len(g) : RealizedFrom(g[i], i)
         /\ \A j \in 1..Len(q) : RealizedFrom(q[j], Len(g) + j)
         /\ Len(callLog) = 1 + 2 * (Len(g) + Len(q))

C1_Witness ==
    /\ Returned
    /\ Len(TheConfig.global_triggers) >= 1
    /\ Len(PlatformList) >= 1
    /\ Len(UnselectedList) >= 1
    /\ Range(UnselectedList) \cap Range(chain) = {}

\* C2: the trigger vector and the action vector have equal length, and the
\* trigger and the action at index i are both realized from entry i of the
\* selected concatenation.
C2_IndexAligned ==
    Invoked =>
      /\ Len(triggers) = Len(actions)
      /\ \A i \in 1..Len(triggers) :
           RealizedFrom(Selected(TheConfig, is_wayland)[i], i)
      /\ Returned => Len(triggers) = Len(Selected(TheConfig, is_wayland))

C2_Witness ==
    /\ Returned
    /\ Len(triggers) >= 2
    /\ triggers[1] # triggers[2]
    /\ actions[1] # actions[2]

\* C3: one make_triggers invocation creates at most one device, and every
\* KeyboardInput action it realizes holds that one device.
C3_OneSharedDevice ==
    Invoked =>
      /\ devicesCreated <= 1
      /\ \A i \in KeyboardIndices :
           /\ actions[i].device = input_device
           /\ actions[i].device \in 1..devicesCreated
      /\ \A i, j \in KeyboardIndices : actions[i].device = actions[j].device

C3_Witness == Returned /\ Cardinality(KeyboardIndices) >= 2

C5_LoadErrors ==
    /\ (~file.readable /\ pc # "start") =>
         /\ pc = "failed"
         /\ loadResult = Err(file.err)
         /\ readAttempts = 1
         /\ decodeAttempts = 0
    /\ (file.readable /\ ~Conforms(file.text) /\ pc \notin {"start", "decoding"}) =>
         /\ pc = "failed"
         /\ loadResult = Err("Other")
         /\ loadResult.kind \notin ReadErrorKinds
         /\ readAttempts = 1
         /\ decodeAttempts = 1
    /\ pc = "failed" =>
         /\ loadResult.tag = "Err"
         /\ config = <<>>
         /\ docState = "Unloaded"

C5_Witness ==
    /\ pc = "failed"
    /\ ~file.readable
    /\ loadResult.kind = "NotFound"

\* C6: a Config goes Unloaded -> Loaded -> Realized; only a make_triggers
\* call leaves Loaded, make_triggers is only ever called on a Loaded Config
\* and leaves it Realized, and Realized is never left.
C6_Lifecycle ==
    [][ /\ (docState = "Realized" => docState' = "Realized")
        /\ (docState = "Unloaded" => docState' \in {"Unloaded", "Loaded"})
        /\ (docState = "Loaded" /\ docState' # "Loaded" =>
              docState' = "Realized" /\ invocations' = invocations + 1)
        /\ (invocations' # invocations =>
              /\ docState = "Loaded"
              /\ docState' = "Realized"
              /\ invocations = 0) ]_vars

C6_Witness == Returned /\ docState = "Realized" /\ invocations = 1

\* C7: a field omitted from the document decodes to its default (100, 100,
\* 1.4, 60.0, empty list), a field that is present keeps its value, and a
\* document omitting every field decodes successfully.
C7_Defaults ==
    LET t == file.text
        given(f) == t[f] # <<>>
    IN /\ docState # "Unloaded" =>
            /\ TheConfig.swipe_distance =
                 IF given("swipe_distance") THEN t.swipe_distance[1] ELSE 100
            /\ TheConfig.shear_distance =
                 IF given("shear_distance") THEN t.shear_distance[1] ELSE 100
            /\ TheConfig.pinch_distance =
                 IF given("pinch_distance") THEN t.pinch_distance[1] ELSE 14
            /\ TheConfig.rotation_distance =
                 IF given("rotation_distance") THEN t.rotation_distance[1]
                                               ELSE 600
            /\ \A f \in {"global_triggers", "x11_triggers", "wayland_triggers"} :
                 TheConfig[f] = IF given(f) THEN t[f][1] ELSE <<>>
       /\ (file.readable /\ t = NoText /\ pc \notin {"start", "decoding"}) =>
            loadResult = Ok /\ docState # "Unloaded"

C7_Witness ==
    /\ file.readable
    /\ file.text = NoText
    /\ docState = "Loaded"
    /\ TheConfig.pinch_distance = 14

\* C8: ConfigAction::make keeps the literal fields of each variant:
\* KeyboardInput its modifier keys and its key sequence in order,
\* ExecuteCommand its path and its arguments in order, InlineScript its code;
\* the ExecuteCommand and InlineScript actions hold no device.
C8_FieldsKept ==
    Invoked =>
      \A i \in 1..Len(actions) :
        /\ ActionKeeps(chain[i].action, actions[i])
        /\ actions[i].kind # "KeyboardInputAction" =>
             DOMAIN actions[i] \subseteq {"kind", "path", "args", "command"}

C8_Witness ==
    /\ Returned
    /\ { actions[i].kind : i \in 1..Len(actions) } =
         {"KeyboardInputAction", "ExecuteCommandAction", "InlineScriptAction"}

\* The two factories are each called exactly once for every realized entry.
OncePerEntry ==
    /\ \A i \in 1..(idx - 1) :
         /\ Cardinality(Positions(<<"trigger.make", i>>)) = 1
         /\ Cardinality(Positions(<<"action.make", i>>)) = 1
    /\ \A p \in 2..Len(callLog) : callLog[p][2] \in 1..(idx - 1)
    /\ Returned => idx - 1 = Len(chain)

\* C9 as stated: for each selected entry the Action Factory and the Trigger
\* Factory are each called exactly once, the Action Factory first.
C9_ActionFactoryFirst ==
    Invoked =>
      /\ OncePerEntry
      /\ \A i \in 1..(idx - 1) :
           \A p \in Positions(<<"action.make", i>>) :
             \A q \in Positions(<<"trigger.make", i>>) : p < q

\* C9 amended: for each selected entry the Trigger Factory and the Action
\* Factory are each called exactly once, the Trigger Factory first, the two
\* calls adjacent, and the pair is emitted.
C9_TriggerFactoryFirst ==
    Invoked =>
      /\ OncePerEntry
      /\ \A i \in 1..(idx - 1) :
           \A p \in Positions(<<"action.make", i>>) :
             \A q \in Positions(<<"trigger.make", i>>) : p = q + 1
      /\ Len(triggers) = idx - 1
      /\ Len(actions) = idx - 1

C9_Witness == Returned /\ Len(chain) >= 2

\* C10: every Trigger Factory call of an invocation receives the Config's
\* swipe_distance, shear_distance, pinch_distance and rotation_distance, in
\* that order, as decoding resolved them; they are the same for every entry.
C10_ThresholdsPassed ==
    Invoked =>
      LET t == file.text
      IN /\ \A i \in 1..Len(triggers) :
              /\ triggers[i].swipe = TheConfig.swipe_distance
              /\ triggers[i].shear = TheConfig.shear_distance
              /\ triggers[i].pinch = TheConfig.pinch_distance
              /\ triggers[i].rotation = TheConfig.rotation_distance
              /\ triggers[i].swipe =
                   IF t.swipe_distance = <<>> THEN 100 ELSE t.swipe_distance[1]
              /\ triggers[i].shear =
                   IF t.shear_distance = <<>> THEN 100 ELSE t.shear_distance[1]
              /\ triggers[i].pinch =
                   IF t.pinch_distance = <<>> THEN 14 ELSE t.pinch_distance[1]
              /\ triggers[i].rotation =
                   IF t.rotation_distance = <<>> THEN 600
                                                 ELSE t.rotation_distance[1]
         /\ \A i, j \in 1..Len(triggers) :
              <<triggers[i].swipe, triggers[i].shear,
                triggers[i].pinch, triggers[i].rotation>> =
              <<triggers[j].swipe, triggers[j].shear,
                triggers[j].pinch, triggers[j].rotation>>

C10_Witness ==
    /\ Returned
    /\ Len(triggers) >= 2
    /\ triggers[1].swipe = 30
    /\ triggers[Len(triggers)].shear = 100
    /\ triggers[1].pinch = 20

====
